---- MODULE Spec2Model ----
(***************************************************************************)
(* Workable: the frame/content index (Content), the dual-mode unit         *)
(* (Workable) and its atomic/composite conversion, the registry            *)
(* (WorkableManager) and the message queue (MessageManager), modelled from *)
(* src/workable/core/content.py, models.py, workable.py, manager.py and    *)
(* message.py.                                                             *)
(*                                                                         *)
(* Objects live in a heap (a sequence of Workable records); a reference to *)
(* an object is its heap index.  A Python dict is an insertion-ordered     *)
(* sequence of [key, val] entries; a dict of sets is a function.           *)
(***************************************************************************)
EXTENDS Integers, Sequences, FiniteSets, TLC

VARIABLES heap, cont, last, hist, workables, mm

vars == <<heap, cont, last, hist, workables, mm>>

\* ------------------------------------------------------------------ bounds
MaxObjects == 3     \* objects ever allocated (constructed or materialized)
MaxSeq == 2         \* sequence numbers handed out by one Content
MaxTargets == 1     \* objects the environment calls operations on

\* ------------------------------------------------------------------ values
None == 0           \* Python None for a uuid / an object reference

\* constructor arguments <<logic_description, is_atom, content_str, content_type>>
Templates == {<<"d", TRUE, "a", "code">>, <<"", TRUE, "a", "code">>,
              <<"d", TRUE, "", "code">>, <<"d", FALSE, "", "code">>}
Contents == {"b"}

\* --------------------------------------------------------- dict (ordered)
EmptyMap == [x \in {} |-> {}]

DictHas(d, k) == \E i \in 1..Len(d) : d[i].key = k

DictGet(d, k) ==
    IF DictHas(d, k) THEN (d[CHOOSE i \in 1..Len(d) : d[i].key = k]).val ELSE None

\* d[k] = v : an existing key keeps its position, a new key goes last
DictSet(d, k, v) ==
    IF DictHas(d, k)
    THEN [i \in 1..Len(d) |-> IF d[i].key = k THEN [key |-> k, val |-> v] ELSE d[i]]
    ELSE Append(d, [key |-> k, val |-> v])

DictDel(d, k) == SelectSeq(d, LAMBDA e : e.key # k)

MapSet(f, k, v) == [x \in DOMAIN f \cup {k} |-> IF x = k THEN v ELSE f[x]]

MapDel(f, k) == [x \in DOMAIN f \ {k} |-> f[x]]

RECURSIVE SortedSeq(_)
\* the elements of a finite set of integers in increasing order
SortedSeq(S) ==
    IF S = {} THEN << >>
    ELSE LET m == CHOOSE x \in S : \A y \in S : x <= y
         IN <<m>> \o SortedSeq(S \ {m})

\* ------------------------------------------------------------ WorkableFrame
WorkableFrame(name, logic_description, seq, frame_type, exref) ==
    [name |-> name, logic_description |-> logic_description, seq |-> seq,
     frame_type |-> frame_type, exref |-> exref]

get_reference_uuid(frame) == frame.exref

is_local(frame) == frame.frame_type = "local"

\* ------------------------------------------------------------------ Content
Content(content_type, content) ==
    [content_type |-> content_type, content |-> content,
     frames_by_seq |-> EmptyMap, frames_by_uuid |-> EmptyMap,
     frames_by_type |-> EmptyMap, next_seq |-> 1,
     local_workables_cache |-> << >>]

\* Content() : the defaults of Content.__init__
ContentDefault == Content("text", "")

\* the frames of one type, through the type index, in seq order (the order in
\* which CPython iterates a set of small integers)
get_frames_by_type(c, frame_type) ==
    IF frame_type \notin DOMAIN c.frames_by_type THEN << >>
    ELSE LET seqs == SortedSeq(c.frames_by_type[frame_type])
         IN [i \in 1..Len(seqs) |-> c.frames_by_seq[seqs[i]]]

\* the frames referencing uuid, through the uuid index, filtered by type
get_frame_by_uuid(c, uuid, frame_type) ==
    IF uuid \notin DOMAIN c.frames_by_uuid THEN << >>
    ELSE LET seqs == SortedSeq(c.frames_by_uuid[uuid])
             frames == [i \in 1..Len(seqs) |-> c.frames_by_seq[seqs[i]]]
         IN IF frame_type # ""
            THEN SelectSeq(frames, LAMBDA f : f.frame_type = frame_type)
            ELSE frames

\* mutant of add_frame: a refused call uses up a sequence number
add_frame_counting(c, name, logic_description, frame_type, uuid, local) ==
    IF name = "" \/ logic_description = "" \/ (uuid = None /\ frame_type # "empty")
    THEN [res |-> "ContentError", c |-> [c EXCEPT !.next_seq = @ + 1], seq |-> 0]
    ELSE LET seq == c.next_seq
             ft == IF local THEN "local" ELSE frame_type
             frame == WorkableFrame(name, logic_description, seq, ft, uuid)
             byuuid == IF uuid # None
                       THEN MapSet(c.frames_by_uuid, uuid,
                                (IF uuid \in DOMAIN c.frames_by_uuid
                                 THEN c.frames_by_uuid[uuid] ELSE {}) \cup {seq})
                       ELSE c.frames_by_uuid
             bytype == MapSet(c.frames_by_type, ft,
                                (IF ft \in DOMAIN c.frames_by_type
                                 THEN c.frames_by_type[ft] ELSE {}) \cup {seq})
         IN [res |-> "ok",
             c |-> [c EXCEPT !.next_seq = seq + 1,
                             !.frames_by_seq = MapSet(c.frames_by_seq, seq, frame),
                             !.frames_by_uuid = byuuid,
                             !.frames_by_type = bytype],
             seq |-> seq]

\* Content.add_frame: result [res, c, seq]
add_frame(c, name, logic_description, frame_type, uuid, local) ==
    IF name = "" \/ logic_description = ""
    THEN [res |-> "ContentError", c |-> c, seq |-> 0]
    ELSE IF uuid = None /\ frame_type # "empty"
    THEN [res |-> "ContentError", c |-> c, seq |-> 0]
    ELSE LET seq == c.next_seq
             ft == IF local THEN "local" ELSE frame_type
             frame == WorkableFrame(name, logic_description, seq, ft, uuid)
             byuuid == IF uuid # None
                       THEN MapSet(c.frames_by_uuid, uuid,
                                (IF uuid \in DOMAIN c.frames_by_uuid
                                 THEN c.frames_by_uuid[uuid] ELSE {}) \cup {seq})
                       ELSE c.frames_by_uuid
             bytype == MapSet(c.frames_by_type, ft,
                                (IF ft \in DOMAIN c.frames_by_type
                                 THEN c.frames_by_type[ft] ELSE {}) \cup {seq})
         IN [res |-> "ok",
             c |-> [c EXCEPT !.next_seq = seq + 1,
                             !.frames_by_seq = MapSet(c.frames_by_seq, seq, frame),
                             !.frames_by_uuid = byuuid,
                             !.frames_by_type = bytype],
             seq |-> seq]

\* Content.remove_frame: result [res, c]
remove_frame(c, seq) ==
    IF seq \notin DOMAIN c.frames_by_seq
    THEN [res |-> "ContentError", c |-> c]
    ELSE LET frame == c.frames_by_seq[seq]
             ref_uuid == get_reference_uuid(frame)
             byuuid == IF ref_uuid # None /\ ref_uuid \in DOMAIN c.frames_by_uuid
                       THEN IF c.frames_by_uuid[ref_uuid] \ {seq} = {}
                            THEN MapDel(c.frames_by_uuid, ref_uuid)
                            ELSE MapSet(c.frames_by_uuid, ref_uuid,
                                        c.frames_by_uuid[ref_uuid] \ {seq})
                       ELSE c.frames_by_uuid
             bytype == IF frame.frame_type \in DOMAIN c.frames_by_type
                       THEN IF c.frames_by_type[frame.frame_type] \ {seq} = {}
                            THEN MapDel(c.frames_by_type, frame.frame_type)
                            ELSE MapSet(c.frames_by_type, frame.frame_type,
                                        c.frames_by_type[frame.frame_type] \ {seq})
                       ELSE c.frames_by_type
         IN [res |-> "ok",
             c |-> [c EXCEPT !.frames_by_seq = MapDel(c.frames_by_seq, seq),
                             !.frames_by_uuid = byuuid,
                             !.frames_by_type = bytype]]

\* mutant of remove_frames: only the first frame of the list is removed
remove_frames_first(c, frames) ==
    IF frames = << >> THEN c ELSE remove_frame(c, Head(frames).seq).c

RECURSIVE remove_frames(_, _)
\* remove_frame for each frame of a list, in list order (the callers' loops)
remove_frames(c, frames) ==
    IF frames = << >> THEN c
    ELSE remove_frames(remove_frame(c, Head(frames).seq).c, Tail(frames))

\* add_local_workable without the test for an id that is already cached
add_local_workable_unchecked(c, h, l) ==
    add_frame([c EXCEPT !.local_workables_cache = DictSet(@, h[l].uuid, l)],
              h[l].name, h[l].logic_description, "local", h[l].uuid, TRUE)

\* Content.add_local_workable for the object l of heap h: result [res, c, seq].
\* The cache entry is written before add_frame runs, and stays when it raises.
add_local_workable(c, h, l) ==
    IF DictHas(c.local_workables_cache, h[l].uuid)
    THEN [res |-> "ContentError", c |-> c, seq |-> 0]
    ELSE LET c1 == [c EXCEPT !.local_workables_cache = DictSet(@, h[l].uuid, l)]
         IN add_frame(c1, h[l].name, h[l].logic_description, "local", h[l].uuid, TRUE)

RECURSIVE remove_seqs(_, _)
\* remove_frame for each seq of a list, in list order: result [res, c]. The
\* loop ends at the first remove_frame that raises.
remove_seqs(c, seqs) ==
    IF seqs = << >> THEN [res |-> "ok", c |-> c]
    ELSE LET r == remove_frame(c, Head(seqs))
         IN IF r.res # "ok" THEN r ELSE remove_seqs(r.c, Tail(seqs))

\* sorted(seqs, reverse=True)
SortedReverse(S) ==
    LET up == SortedSeq(S) IN [i \in 1..Len(up) |-> up[Len(up) + 1 - i]]

\* Content.remove_local_workable: result [res, c]
remove_local_workable(c, uuid) ==
    IF ~DictHas(c.local_workables_cache, uuid)
    THEN [res |-> "ContentError", c |-> c]
    ELSE LET seqs_to_remove == IF uuid \in DOMAIN c.frames_by_uuid
                               THEN c.frames_by_uuid[uuid] ELSE {}
             c1 == [c EXCEPT !.local_workables_cache = DictDel(@, uuid)]
         IN remove_seqs(c1, SortedReverse(seqs_to_remove))

\* Content.validate: [is_valid, orphan_frames, ghost_workables]; the ghosts in
\* cache order, the orphans listed by seq (their order in the returned list is
\* the dict's insertion order, which no caller depends on: repair sorts them)
validate(c) ==
    LET orphan_frames ==
            SortedSeq({s \in DOMAIN c.frames_by_seq :
                          /\ get_reference_uuid(c.frames_by_seq[s]) # None
                          /\ is_local(c.frames_by_seq[s])
                          /\ ~DictHas(c.local_workables_cache,
                                      get_reference_uuid(c.frames_by_seq[s]))})
        ghosts == SelectSeq(c.local_workables_cache,
                            LAMBDA e : e.key \notin DOMAIN c.frames_by_uuid)
        ghost_workables == [i \in 1..Len(ghosts) |-> ghosts[i].key]
    IN [is_valid |-> orphan_frames = << >> /\ ghost_workables = << >>,
        orphan_frames |-> orphan_frames,
        ghost_workables |-> ghost_workables]

\* new_seq_of with the frame at the target left where it is
new_seq_of_open(seq, from_seq, to_seq) ==
    IF from_seq < to_seq /\ seq > from_seq /\ seq < to_seq THEN seq - 1
    ELSE IF from_seq > to_seq /\ seq > to_seq /\ seq < from_seq THEN seq + 1
    ELSE seq

\* the seq that the frame at seq gets when the frame at from_seq moves to to_seq
new_seq_of(seq, from_seq, to_seq) ==
    IF from_seq < to_seq /\ seq > from_seq /\ seq <= to_seq THEN seq - 1
    ELSE IF from_seq > to_seq /\ seq >= to_seq /\ seq < from_seq THEN seq + 1
    ELSE seq

\* the uuid index after the entry seq of ref_uuid is rewritten in place
reindex(byuuid, ref_uuid, seq, new_seq) ==
    IF ref_uuid \in DOMAIN byuuid /\ seq \in byuuid[ref_uuid]
    THEN MapSet(byuuid, ref_uuid, (byuuid[ref_uuid] \ {seq}) \cup {new_seq})
    ELSE byuuid

\* mutant of move_others: the frames between the two positions stay where they are
move_others_unshifted(c, seqs, from_seq, to_seq, acc) ==
    [byseq |-> MapDel(c.frames_by_seq, from_seq), byuuid |-> acc.byuuid]

RECURSIVE move_others(_, _, _, _, _)
\* the loop of move_frame over sorted(frames_by_seq.items()), the moved frame
\* skipped: acc = [byseq, byuuid] is the new seq dict and the uuid index, which
\* the loop rewrites one frame after the other
move_others(c, seqs, from_seq, to_seq, acc) ==
    IF seqs = << >> THEN acc
    ELSE IF Head(seqs) = from_seq
    THEN move_others(c, Tail(seqs), from_seq, to_seq, acc)
    ELSE LET seq == Head(seqs)
             f == c.frames_by_seq[seq]
             new_seq == new_seq_of(seq, from_seq, to_seq)
         IN move_others(c, Tail(seqs), from_seq, to_seq,
                [byseq |-> MapSet(acc.byseq, new_seq, [f EXCEPT !.seq = new_seq]),
                 byuuid |-> reindex(acc.byuuid, get_reference_uuid(f), seq, new_seq)])

\* mutant of MaxOf: the lowest seq
MinOf(S) == CHOOSE m \in S : \A x \in S : m <= x

\* max(keys) of a non-empty set of seqs
MaxOf(S) == CHOOSE m \in S : \A x \in S : x <= m

\* the targets move_frame refuses
bad_target(c, to_seq) == to_seq < 0

\* Content.move_frame: result [res, c]. The type index is left as it was.
move_frame(c, from_seq, to_seq) ==
    IF from_seq \notin DOMAIN c.frames_by_seq
    THEN [res |-> "ContentError", c |-> c]
    ELSE IF bad_target(c, to_seq)
    THEN [res |-> "ContentError", c |-> c]
    ELSE IF from_seq = to_seq
    THEN [res |-> "ok", c |-> c]
    ELSE LET frame == c.frames_by_seq[from_seq]
             acc == move_others(c, SortedSeq(DOMAIN c.frames_by_seq), from_seq, to_seq,
                                [byseq |-> EmptyMap, byuuid |-> c.frames_by_uuid])
             new_frames_by_seq == MapSet(acc.byseq, to_seq, [frame EXCEPT !.seq = to_seq])
             byuuid == reindex(acc.byuuid, get_reference_uuid(frame), from_seq, to_seq)
         IN [res |-> "ok",
             c |-> [c EXCEPT !.frames_by_seq = new_frames_by_seq,
                             !.frames_by_uuid = byuuid,
                             !.next_seq = MaxOf(DOMAIN new_frames_by_seq) + 1]]

\* Content.clear_frames: the three indices emptied, the counter back at 1; the
\* cache of local units is left as it was
clear_frames(c) ==
    [res |-> "ok",
     c |-> [c EXCEPT !.frames_by_seq = EmptyMap,
                     !.frames_by_uuid = EmptyMap,
                     !.frames_by_type = EmptyMap,
                     !.next_seq = 1]]

RECURSIVE add_ghost_frames(_, _, _)
\* the loop of repair over the ghosts: result [res, c, seq], seq the last one
\* handed out; any exception leaves repair as a ContentError
add_ghost_frames(c, h, uuids) ==
    IF uuids = << >> THEN [res |-> "ok", c |-> c, seq |-> 0]
    ELSE LET workable == h[DictGet(c.local_workables_cache, Head(uuids))]
             r == add_frame(c, workable.name, workable.logic_description,
                            "local", workable.uuid, TRUE)
         IN IF r.res # "ok" THEN [res |-> "ContentError", c |-> r.c, seq |-> 0]
            ELSE IF Tail(uuids) = << >> THEN r
            ELSE add_ghost_frames(r.c, h, Tail(uuids))

\* repair giving no ghost a frame
ghosts_skipped(v) == << >>

\* the ghosts repair gives a frame to
ghosts_to_repair(v) == v.ghost_workables

\* repair deleting no orphan
orphans_skipped(v) == << >>

\* the orphans repair deletes, highest seq first
orphans_to_repair(v) ==
    SortedReverse({v.orphan_frames[i] : i \in 1..Len(v.orphan_frames)})

\* Content.repair, the cached units being objects of heap h: result [res, c, seq]
repair(c, h) ==
    LET v == validate(c) IN
    IF v.is_valid THEN [res |-> "ok", c |-> c, seq |-> 0]
    ELSE LET r == remove_seqs(c, orphans_to_repair(v))
         IN IF r.res # "ok" THEN [res |-> "ContentError", c |-> r.c, seq |-> 0]
            ELSE add_ghost_frames(r.c, h, ghosts_to_repair(v))

\* ----------------------------------------------------------------- Workable
\* str(uuid.uuid4()): an id no live object carries
uuid4(h) == 10 + Len(h) + 1

\* Workable.__init__ (manager = None), as the record the constructor leaves
Workable(h, name, logic_description, is_atom, content_str, content_type) ==
    [uuid |-> uuid4(h),
     name |-> name,
     logic_description |-> logic_description,
     is_atom_flag |-> is_atom,
     content |-> IF is_atom /\ content_str # ""
                 THEN Content(content_type, content_str)
                 ELSE ContentDefault,
     child_none |-> is_atom,            \* _child_references is None
     child_references |-> << >>,
     local_references |-> << >>,
     is_converted_content |-> FALSE,    \* attribute absent
     is_local |-> FALSE,                \* attribute absent
     manager |-> FALSE]                 \* manager is None

\* Workable.__init__ with manager = the WorkableManager
Workable_managed(h, name, logic_description, is_atom, content_str, content_type) ==
    [Workable(h, name, logic_description, is_atom, content_str, content_type)
        EXCEPT !.manager = TRUE]

\* mutant of add_local: a composite unit is accepted as well
add_local_any_unit(h, o, l) ==
    LET h1 == [h EXCEPT ![l].is_local = TRUE]
        h2 == [h1 EXCEPT ![o].local_references = DictSet(@, h1[l].uuid, l)]
        r == add_frame(h2[o].content, h2[l].name, h2[l].logic_description,
                       "local", h2[l].uuid, TRUE)
    IN [res |-> r.res, heap |-> [h2 EXCEPT ![o].content = r.c]]

\* Workable.add_local: result [res, heap]
add_local(h, o, l) ==
    IF ~h[l].is_atom_flag
    THEN [res |-> "WorkableError", heap |-> h]
    ELSE LET h1 == [h EXCEPT ![l].is_local = TRUE]
             h2 == [h1 EXCEPT ![o].local_references = DictSet(@, h1[l].uuid, l)]
             r == add_frame(h2[o].content, h2[l].name, h2[l].logic_description,
                            "local", h2[l].uuid, TRUE)
         IN [res |-> r.res, heap |-> [h2 EXCEPT ![o].content = r.c]]

\* Workable.is_atom
is_atom(w) == w.is_atom_flag

\* Workable.is_complex
is_complex(w) == ~is_atom(w)

\* make_complex, the state flip: is_atom_flag = False, _child_references = {}
to_complex(w) ==
    [w EXCEPT !.is_atom_flag = FALSE, !.child_none = FALSE, !.child_references = << >>]

\* mutant of already_complex: the early return is never taken
already_complex_never(w) == FALSE

\* make_complex, the early return: the unit is not atomic
already_complex(w) == ~is_atom(w)

\* Workable.make_complex: result [res, heap]
make_complex(h, o) ==
    IF already_complex(h[o])
    THEN [res |-> "ok", heap |-> h]
    ELSE LET original_content == h[o].content.content
             original_content_type == h[o].content.content_type
             flip(hh) == [hh EXCEPT ![o] = to_complex(@)]
         IN IF original_content # ""
            THEN LET local_workable ==
                         [Workable(h, h[o].name \o "_content", h[o].logic_description,
                                   TRUE, original_content, original_content_type)
                            EXCEPT !.is_converted_content = TRUE,
                                   !.manager = h[o].manager]
                     l == Len(h) + 1
                     h1 == [Append(h, local_workable) EXCEPT ![o].content = ContentDefault]
                     r == add_local(h1, o, l)
                 IN IF r.res # "ok" THEN r
                    ELSE [res |-> "ok", heap |-> flip(r.heap)]
            ELSE [res |-> "ok", heap |-> flip(h)]

\* mutant of has_child_frames: the child check is skipped
has_child_frames_skipped(c) == FALSE

\* make_simple, the child check: some child frame is in the type index
has_child_frames(c) == Len(get_frames_by_type(c, "child")) > 0

\* make_simple, the marker search: the first entry of _local_references whose
\* unit has is_converted_content set, or None
find_converted(h, refs) ==
    LET marked == {i \in 1..Len(refs) : h[refs[i].val].is_converted_content}
    IN IF marked = {} THEN None
       ELSE refs[CHOOSE i \in marked : \A j \in marked : i <= j].val

\* mutant of one_local_frame: any positive number of local frames passes
one_local_frame_or_more(local_frames) == Len(local_frames) >= 1

\* make_simple, the count check of the fallback: exactly one local frame
one_local_frame(local_frames) == Len(local_frames) = 1

\* mutant of to_simple: the unit also takes over the id of the local unit
to_simple_with_id(w, cw) ==
    [w EXCEPT !.uuid = cw.uuid,
              !.content = Content(cw.content.content_type, cw.content.content),
              !.is_atom_flag = TRUE,
              !.local_references = << >>,
              !.child_none = TRUE,
              !.child_references = << >>]

\* make_simple, the payload extraction and the state flip
to_simple(w, cw) ==
    [w EXCEPT !.content = Content(cw.content.content_type, cw.content.content),
              !.is_atom_flag = TRUE,
              !.local_references = << >>,
              !.child_none = TRUE,
              !.child_references = << >>]

\* Workable.make_simple: result [res, heap]
make_simple(h, o) ==
    IF is_atom(h[o])
    THEN [res |-> "ok", heap |-> h]
    ELSE LET refs == h[o].local_references
             marked == find_converted(h, refs)
             local_frames == get_frames_by_type(h[o].content, "local")
             convert(cw) == [res |-> "ok", heap |-> [h EXCEPT ![o] = to_simple(@, h[cw])]]
         IN IF has_child_frames(h[o].content)
            THEN [res |-> "ConversionError", heap |-> h]
            ELSE IF marked # None
            THEN convert(marked)
            ELSE IF ~one_local_frame(local_frames)
            THEN [res |-> "ConversionError", heap |-> h]
            ELSE LET local_uuid == get_reference_uuid(local_frames[1])
                     content_workable == DictGet(refs, local_uuid)
                 IN IF content_workable = None
                    THEN [res |-> "ConversionError", heap |-> h]
                    ELSE convert(content_workable)

\* mutant of update_content: the mode check is missing
update_content_any_mode(h, o, content_str) ==
    [res |-> "ok", heap |-> [h EXCEPT ![o].content.content = content_str]]

\* Workable.update_content: result [res, heap]
update_content(h, o, content_str) ==
    IF ~h[o].is_atom_flag
    THEN [res |-> "AttributeError", heap |-> h]
    ELSE [res |-> "ok", heap |-> [h EXCEPT ![o].content.content = content_str]]

\* Workable.update: result [res, heap]; "" stands for an argument left None
update(h, o, name, logic_description) ==
    LET c == h[o].content
        own == IF h[o].uuid \in DOMAIN c.frames_by_uuid
               THEN c.frames_by_uuid[h[o].uuid] ELSE {}
        upd(f) == [f EXCEPT !.name = IF name # "" THEN name ELSE @,
                            !.logic_description =
                                IF logic_description # "" THEN logic_description ELSE @]
    IN [res |-> "ok",
        heap |-> [h EXCEPT ![o].name = IF name # "" THEN name ELSE @,
                           ![o].logic_description =
                               IF logic_description # "" THEN logic_description ELSE @,
                           ![o].content.frames_by_seq =
                               [s \in DOMAIN c.frames_by_seq |->
                                   IF s \in own THEN upd(c.frames_by_seq[s])
                                   ELSE c.frames_by_seq[s]]]]

\* mutant of add_child: the mode check is missing
add_child_any_mode(h, o, child) ==
    LET h1 == [h EXCEPT ![o].child_references = DictSet(@, h[child].uuid, child)]
        r == add_frame(h1[o].content, h[child].name, h[child].logic_description,
                       "child", h[child].uuid, FALSE)
    IN [res |-> r.res, heap |-> [h1 EXCEPT ![o].content = r.c]]

\* Workable.add_child: result [res, heap]
add_child(h, o, child) ==
    IF h[o].is_atom_flag
    THEN [res |-> "AttributeError", heap |-> h]
    ELSE LET h1 == [h EXCEPT ![o].child_references = DictSet(@, h[child].uuid, child)]
             r == add_frame(h1[o].content, h[child].name, h[child].logic_description,
                            "child", h[child].uuid, FALSE)
         IN [res |-> r.res, heap |-> [h1 EXCEPT ![o].content = r.c]]

\* mutant of remove_child: the mode check is missing
remove_child_any_mode(h, o, uuid) ==
    LET frames == get_frame_by_uuid(h[o].content, uuid, "child")
    IN [res |-> "ok",
        heap |-> [h EXCEPT ![o].child_references = DictDel(@, uuid),
                           ![o].content = remove_frames(@, frames)],
        ret |-> frames # << >>]

\* Workable.remove_child: result [res, heap, ret]
remove_child(h, o, uuid) ==
    IF h[o].is_atom_flag
    THEN [res |-> "AttributeError", heap |-> h, ret |-> FALSE]
    ELSE LET frames == get_frame_by_uuid(h[o].content, uuid, "child")
         IN [res |-> "ok",
             heap |-> [h EXCEPT ![o].child_references = DictDel(@, uuid),
                                ![o].content = remove_frames(@, frames)],
             ret |-> frames # << >>]

\* Workable.remove_local: result [res, heap, ret]
remove_local(h, o, uuid) ==
    LET frames == get_frame_by_uuid(h[o].content, uuid, "local")
    IN [res |-> "ok",
        heap |-> [h EXCEPT ![o].local_references = DictDel(@, uuid),
                           ![o].content = remove_frames(@, frames)],
        ret |-> frames # << >>]

\* Workable.get_locals: the objects, one per local frame found in the cache
get_locals(h, o) ==
    LET local_frames == get_frames_by_type(h[o].content, "local")
        hit == SelectSeq(local_frames,
                         LAMBDA f : DictHas(h[o].local_references, get_reference_uuid(f)))
    IN [i \in 1..Len(hit) |-> DictGet(h[o].local_references, get_reference_uuid(hit[i]))]

\* Workable.get_children with manager = None, the loop after the mode check:
\* one object per child frame in the cache
get_children(h, o) ==
    LET child_frames == get_frames_by_type(h[o].content, "child")
        hit == SelectSeq(child_frames,
                         LAMBDA f : DictHas(h[o].child_references, get_reference_uuid(f)))
    IN [i \in 1..Len(hit) |-> DictGet(h[o].child_references, get_reference_uuid(hit[i]))]

\* Workable.get_children, the call: result [res, heap, ret]
get_children_call(h, o) ==
    IF is_atom(h[o])
    THEN [res |-> "AttributeError", heap |-> h, ret |-> << >>]
    ELSE [res |-> "ok", heap |-> h, ret |-> get_children(h, o)]

\* Workable.content_str, the getter: result [res, heap, ret]
get_content_str(h, o) ==
    IF ~is_atom(h[o])
    THEN [res |-> "AttributeError", heap |-> h, ret |-> ""]
    ELSE [res |-> "ok", heap |-> h, ret |-> h[o].content.content]

\* Workable.content_str, the setter: result [res, heap]
set_content_str(h, o, value) ==
    IF ~is_atom(h[o])
    THEN [res |-> "AttributeError", heap |-> h]
    ELSE [res |-> "ok", heap |-> [h EXCEPT ![o].content.content = value]]

\* Workable.content_type, the getter: result [res, heap, ret]
get_content_type(h, o) ==
    IF ~is_atom(h[o])
    THEN [res |-> "AttributeError", heap |-> h, ret |-> ""]
    ELSE [res |-> "ok", heap |-> h, ret |-> h[o].content.content_type]

\* (content_type, content): the inline payload of a unit
payload(w) == <<w.content.content_type, w.content.content>>

\* ------------------------------------------------- WorkableManager (Registry)
\* SimpleWorkable(name, logic_description, content, content_type): an atomic
\* unit; id is the value uuid4 returns inside the constructor
SimpleWorkable(h, id, name, logic_description, content, content_type) ==
    [Workable(h, name, logic_description, TRUE, content, content_type)
        EXCEPT !.uuid = id]

\* ComplexWorkable(name, logic_description): a composite unit
ComplexWorkable(h, id, name, logic_description) ==
    [Workable(h, name, logic_description, FALSE, "", "text") EXCEPT !.uuid = id]

\* isinstance(workable, ComplexWorkable): the unit is a composite unit
is_ComplexWorkable(w) == is_complex(w)

\* WorkableManager.__init__: self.workables = {}
WorkableManager == << >>

\* the registration both create_simple and create_complex end with: a unit whose
\* id is already a key is rejected, any other is stored and returned;
\* result [res, heap, workables, ret]
register_created(h, ws, workable) ==
    IF DictHas(ws, workable.uuid)
    THEN [res |-> "WorkableError", heap |-> h, workables |-> ws, ret |-> None]
    ELSE [res |-> "ok", heap |-> Append(h, workable),
          workables |-> DictSet(ws, workable.uuid, Len(h) + 1),
          ret |-> Len(h) + 1]

\* WorkableManager.create_simple
create_simple(h, ws, id, name, logic_description, content, content_type) ==
    IF name = ""
    THEN [res |-> "WorkableError", heap |-> h, workables |-> ws, ret |-> None]
    ELSE register_created(h, ws, SimpleWorkable(h, id, name, logic_description,
                                                content, content_type))

\* WorkableManager.create_complex
create_complex(h, ws, id, name, logic_description) ==
    IF name = ""
    THEN [res |-> "WorkableError", heap |-> h, workables |-> ws, ret |-> None]
    ELSE register_created(h, ws, ComplexWorkable(h, id, name, logic_description))

\* WorkableManager.read: the registered object, or None
read(ws, uuid) == IF uuid = None THEN None ELSE DictGet(ws, uuid)

\* Workable.child_workables, the keys of the dict it builds: no key for an
\* atomic unit, else the ids of the units get_children() returns
child_workables(h, o) ==
    IF is_atom(h[o]) THEN {}
    ELSE {h[get_children(h, o)[i]].uuid : i \in 1..Len(get_children(h, o))}

\* mutant of strip_child: no parent is cleaned
strip_child_never(h, ws, i, uuid) == h

\* WorkableManager.delete, the loop over self.workables.items() from entry i on:
\* every registered composite unit that has uuid among its children drops it
RECURSIVE strip_child(_, _, _, _)
strip_child(h, ws, i, uuid) ==
    IF i > Len(ws) THEN h
    ELSE LET o == ws[i].val
         IN IF is_ComplexWorkable(h[o]) /\ uuid \in child_workables(h, o)
            THEN strip_child(remove_child(h, o, uuid).heap, ws, i + 1, uuid)
            ELSE strip_child(h, ws, i + 1, uuid)

\* WorkableManager.delete: result [res, heap, workables, ret]
delete(h, ws, uuid) ==
    IF uuid = None \/ ~DictHas(ws, uuid)
    THEN [res |-> "WorkableError", heap |-> h, workables |-> ws, ret |-> FALSE]
    ELSE [res |-> "ok", heap |-> strip_child(h, ws, 1, uuid),
          workables |-> DictDel(ws, uuid), ret |-> TRUE]

\* mutant of update_complex_structure: the child to add is not looked up
update_complex_structure_unread(h, ws, uuid, add_child_id, remove_child_id) ==
    LET workable == read(ws, uuid)
        refused == [res |-> "WorkableError", heap |-> h, workables |-> ws, ret |-> FALSE]
    IN IF workable = None THEN refused
       ELSE IF ~is_ComplexWorkable(h[workable]) THEN refused
       ELSE IF add_child_id # None
       THEN LET c == IF read(ws, add_child_id) # None THEN read(ws, add_child_id)
                     ELSE workable
                r == add_frame(h[workable].content, h[c].name, h[c].logic_description,
                               "child", add_child_id, FALSE)
            IN IF r.res # "ok" THEN refused
               ELSE [res |-> "ok", heap |-> [h EXCEPT ![workable].content = r.c],
                     workables |-> ws, ret |-> TRUE]
       ELSE [res |-> "ok", heap |-> remove_child(h, workable, remove_child_id).heap,
             workables |-> ws, ret |-> TRUE]

\* WorkableManager.update_complex_structure: result [res, heap, workables,
\* ret]; None stands for an argument left out. Whatever is raised leaves as a
\* WorkableError, with the effects had until then.
update_complex_structure(h, ws, uuid, add_child_id, remove_child_id) ==
    LET workable == read(ws, uuid)
        refused == [res |-> "WorkableError", heap |-> h, workables |-> ws, ret |-> FALSE]
    IN IF workable = None THEN refused
       ELSE IF ~is_ComplexWorkable(h[workable]) THEN refused
       ELSE LET child == read(ws, add_child_id)
                added == IF add_child_id = None THEN [res |-> "ok", heap |-> h]
                         ELSE IF child = None THEN [res |-> "WorkableError", heap |-> h]
                         ELSE add_child(h, workable, child)
            IN IF added.res # "ok"
               THEN [res |-> "WorkableError", heap |-> added.heap, workables |-> ws,
                     ret |-> FALSE]
               ELSE [res |-> "ok",
                     heap |-> IF remove_child_id = None THEN added.heap
                              ELSE remove_child(added.heap, workable, remove_child_id).heap,
                     workables |-> ws, ret |-> TRUE]

\* convert_complex_to_simple: result [res, heap, ret], ret the converted unit,
\* or None when make_simple refuses
convert_complex_to_simple(h, o) ==
    IF is_atom(h[o])
    THEN [res |-> "ConversionError", heap |-> h, ret |-> None]
    ELSE LET r == make_simple(h, o)
         IN IF r.res = "ConversionError"
            THEN [res |-> "ok", heap |-> r.heap, ret |-> None]
            ELSE [res |-> r.res, heap |-> r.heap, ret |-> o]

\* WorkableManager.convert_to_simple, the loop over self.workables.items() from
\* entry i on: every registered composite unit that has uuid among its children
\* drops it and is given the converted unit; result [res, heap]
RECURSIVE swap_child(_, _, _, _, _)
swap_child(h, ws, i, uuid, simple_work) ==
    IF i > Len(ws) THEN [res |-> "ok", heap |-> h]
    ELSE LET w == ws[i].val
         IN IF is_ComplexWorkable(h[w]) /\ uuid \in child_workables(h, w)
            THEN LET r == add_child(remove_child(h, w, uuid).heap, w, simple_work)
                 IN IF r.res # "ok" THEN [res |-> "ConversionError", heap |-> r.heap]
                    ELSE swap_child(r.heap, ws, i + 1, uuid, simple_work)
            ELSE swap_child(h, ws, i + 1, uuid, simple_work)

\* WorkableManager.convert_to_simple: result [res, heap, workables]. Whatever
\* is raised leaves as a ConversionError, with the effects had until then:
\* when convert_complex_to_simple returns None, the entry of uuid is deleted
\* before simple_work.uuid is evaluated.
convert_to_simple(h, ws, uuid) ==
    LET workable == read(ws, uuid)
        refused == [res |-> "ConversionError", heap |-> h, workables |-> ws]
    IN IF workable = None THEN refused
       ELSE IF ~is_ComplexWorkable(h[workable]) THEN refused
       ELSE IF child_workables(h, workable) # {} THEN refused
       ELSE IF h[workable].content.local_workables_cache # << >> THEN refused
       ELSE LET c == convert_complex_to_simple(h, workable)
                deleted == DictDel(ws, uuid)
            IN IF c.res # "ok" THEN refused
               ELSE IF c.ret = None
               THEN [res |-> "ConversionError", heap |-> c.heap, workables |-> deleted]
               ELSE LET stored == DictSet(deleted, c.heap[c.ret].uuid, c.ret)
                        r == swap_child(c.heap, stored, 1, uuid, c.ret)
                    IN [res |-> r.res, heap |-> r.heap, workables |-> stored]

\* one pass of the two loops of build_parent_map: every id in ids is mapped to
\* parent_uuid, a later assignment replacing an earlier one
RECURSIVE map_to_parent(_, _, _)
map_to_parent(parent_map, ids, parent_uuid) ==
    IF ids = << >> THEN parent_map
    ELSE map_to_parent(MapSet(parent_map, Head(ids), parent_uuid), Tail(ids),
                       parent_uuid)

\* workable.content.workables.keys(): the keys of the Content's local cache
cache_keys(c) == [i \in 1..Len(c.local_workables_cache) |-> c.local_workables_cache[i].key]

\* WorkableManager.build_parent_map from entry i of self.workables.items() on
RECURSIVE build_parent_map_from(_, _, _, _)
build_parent_map_from(h, ws, i, parent_map) ==
    IF i > Len(ws) THEN parent_map
    ELSE LET o == ws[i].val
             children == SortedSeq(child_workables(h, o))
             with_children == map_to_parent(parent_map, children, ws[i].key)
             with_locals == map_to_parent(with_children, cache_keys(h[o].content),
                                          ws[i].key)
         IN IF is_ComplexWorkable(h[o])
            THEN build_parent_map_from(h, ws, i + 1, with_locals)
            ELSE build_parent_map_from(h, ws, i + 1, parent_map)

\* WorkableManager.build_parent_map: a function child id -> parent id
build_parent_map(h, ws) == build_parent_map_from(h, ws, 1, EmptyMap)

\* WorkableManager.get_all_roots, as the set the returned list is made from
get_all_roots(h, ws) ==
    {ws[i].key : i \in 1..Len(ws)} \ DOMAIN build_parent_map(h, ws)

\* WorkableManager.register_workable: result [res, workables]
register_workable(h, ws, o) ==
    IF DictHas(ws, h[o].uuid)
    THEN [res |-> "ManagerError", workables |-> ws]
    ELSE [res |-> "ok", workables |-> DictSet(ws, h[o].uuid, o)]

\* WorkableManager.unregister_workable: result [res, workables, ret]
unregister_workable(ws, uuid) ==
    IF DictHas(ws, uuid)
    THEN [res |-> "ok", workables |-> DictDel(ws, uuid), ret |-> TRUE]
    ELSE [res |-> "ok", workables |-> ws, ret |-> FALSE]

\* mutant of get_workable: the registry finds nothing
get_workable_none(ws, uuid) == None

\* WorkableManager.get_workable
get_workable(ws, uuid) == read(ws, uuid)

\* Workable.child_workables, the setter: only the cache is replaced
set_child_workables(h, o, value) ==
    IF is_atom(h[o]) THEN [res |-> "ok", heap |-> h]
    ELSE [res |-> "ok", heap |-> [h EXCEPT ![o].child_references = value]]

RECURSIVE get_children_loop(_, _, _, _, _)
\* the loop of Workable.get_children over the child frames: the cache first,
\* then the manager, whose answer is put into the cache; result [res, heap, ret]
get_children_loop(h, ws, o, frames, result) ==
    IF frames = << >> THEN [res |-> "ok", heap |-> h, ret |-> result]
    ELSE LET uuid == get_reference_uuid(Head(frames))
             child == get_workable(ws, uuid)
         IN IF DictHas(h[o].child_references, uuid)
            THEN get_children_loop(h, ws, o, Tail(frames),
                    Append(result, DictGet(h[o].child_references, uuid)))
            ELSE IF h[o].manager /\ child # None
            THEN get_children_loop(
                    [h EXCEPT ![o].child_references = DictSet(@, uuid, child)],
                    ws, o, Tail(frames), Append(result, child))
            ELSE get_children_loop(h, ws, o, Tail(frames), result)

\* Workable.get_children of a unit that may have been given the manager:
\* result [res, heap, ret]
get_children_managed(h, ws, o) ==
    IF is_atom(h[o])
    THEN [res |-> "AttributeError", heap |-> h, ret |-> << >>]
    ELSE get_children_loop(h, ws, o, get_frames_by_type(h[o].content, "child"), << >>)

\* ------------------------------------------------------------ MessageManager
\* Message(content, sender, receiver, status, id) after __post_init__: a status
\* that is not one of the three valid ones becomes "inbox"
Message(content, status, id) ==
    [content |-> content,
     status |-> IF status \in {"inbox", "processing", "archive"} THEN status
                ELSE "inbox",
     id |-> id]

\* MessageManager.__init__
MessageManager == [inbox |-> << >>, archived |-> << >>]

\* list.pop(i), the list that is left
pop(list, i) == [j \in 1..(Len(list) - 1) |-> IF j < i THEN list[j] ELSE list[j + 1]]

\* MessageManager.processing
processing(m) == SelectSeq(m.archived, LAMBDA msg : msg.status = "processing")

\* MessageManager.archive
archive(m) == SelectSeq(m.archived, LAMBDA msg : msg.status = "archive")

\* MessageManager.append_message with a Message object: the manager it leaves
append_message(m, message) ==
    LET msg == IF message.status \notin {"inbox", "processing", "archive", "archived"}
               THEN [message EXCEPT !.status = "inbox"] ELSE message
    IN IF msg.status \in {"archived", "archive", "processing"}
       THEN [m EXCEPT !.archived = Append(@, msg)]
       ELSE [m EXCEPT !.inbox = Append(@, msg)]

\* mutant of next_in_line: the newest message is taken
next_in_line_newest(inbox) == Len(inbox)

\* process_next, the position it pops: self.inbox.pop(0)
next_in_line(inbox) == 1

\* MessageManager.process_next: result [m, ret]; ret is << >> for None, else
\* the one message returned
process_next(m) ==
    IF m.inbox = << >>
    THEN [m |-> m, ret |-> << >>]
    ELSE LET i == next_in_line(m.inbox)
             message == [m.inbox[i] EXCEPT !.status = "processing"]
         IN [m |-> [inbox |-> pop(m.inbox, i), archived |-> Append(m.archived, message)],
             ret |-> <<message>>]

\* MessageManager.archive_message: result [m, ret]
archive_message(m, message_id) ==
    LET in_inbox == {i \in 1..Len(m.inbox) : m.inbox[i].id = message_id}
        in_processing == {i \in 1..Len(m.archived) :
                             /\ m.archived[i].id = message_id
                             /\ m.archived[i].status = "processing"}
        first(S) == CHOOSE i \in S : \A j \in S : i <= j
    IN IF in_inbox # {}
       THEN [m |-> [inbox |-> pop(m.inbox, first(in_inbox)),
                    archived |-> Append(m.archived,
                                        [m.inbox[first(in_inbox)]
                                            EXCEPT !.status = "archive"])],
             ret |-> TRUE]
       ELSE IF in_processing # {}
       THEN [m |-> [m EXCEPT !.archived[first(in_processing)].status = "archive"],
             ret |-> TRUE]
       ELSE [m |-> m, ret |-> FALSE]

\* ------------------------------------------------------------------ actions
Objs == 1..Len(heap)

Targets == {o \in Objs : o <= MaxTargets}

NoPre == <<"", "">>

\* what has happened to cont so far: the highest seq add_frame has returned
\* (0: none) and the number of frames move_frame has moved
NoHist == [issued |-> 0, moves |-> 0]

Done(op, o, r, pre) ==
    /\ heap' = r.heap
    /\ UNCHANGED <<cont, hist, workables, mm>>
    /\ last' = [op |-> op, obj |-> o, res |-> r.res, pre |-> pre]

\* a call whose argument (the id of a unit) and boolean result are kept
DoneWith(op, o, r, arg, ret) ==
    /\ heap' = r.heap
    /\ UNCHANGED <<cont, hist, workables, mm>>
    /\ last' = [op |-> op, obj |-> o, res |-> r.res, pre |-> NoPre,
                arg |-> arg, ret |-> ret]

\* room for one more frame in the Content of o
Room(o) == heap[o].content.next_seq <= MaxSeq

Init ==
    /\ heap = << >>
    /\ cont = ContentDefault
    /\ hist = NoHist
    /\ workables = WorkableManager
    /\ mm = MessageManager
    /\ last = [op |-> "init", obj |-> None, res |-> "ok", pre |-> NoPre]

\* Units are constructed before the first call on any of them: a unit built
\* later cannot have influenced the calls made before it existed.
Construct ==
    /\ Len(heap) < MaxObjects
    /\ last.op \in {"init", "construct"}
    /\ \E t \in Templates :
          /\ heap' = Append(heap, Workable(heap, "n", t[1], t[2], t[3], t[4]))
          /\ last' = [op |-> "construct", obj |-> Len(heap) + 1, res |-> "ok",
                      pre |-> NoPre]
    /\ UNCHANGED <<cont, hist, workables, mm>>

\* make_complex allocates an object when it materializes a payload
MakeComplex ==
    \E o \in Targets :
        /\ (is_atom(heap[o]) /\ heap[o].content.content # "") => Len(heap) < MaxObjects
        /\ Done("make_complex", o, make_complex(heap, o),
                IF is_atom(heap[o]) THEN payload(heap[o]) ELSE NoPre)

MakeSimple ==
    \E o \in Targets : Done("make_simple", o, make_simple(heap, o), NoPre)

UpdateContent ==
    \E o \in Targets, s \in Contents :
        Done("update_content", o, update_content(heap, o, s), NoPre)

Update ==
    \E o \in Targets, a \in {<<"m", "">>} :
        Done("update", o, update(heap, o, a[1], a[2]), NoPre)

AddChild ==
    \E o \in Targets, c \in Objs :
        /\ Room(o)
        /\ DoneWith("add_child", o, add_child(heap, o, c), heap[c].uuid, FALSE)

RemoveChild ==
    \E o \in Targets, c \in Objs :
        DoneWith("remove_child", o, remove_child(heap, o, heap[c].uuid), heap[c].uuid,
                 remove_child(heap, o, heap[c].uuid).ret)

AddLocal ==
    \E o \in Targets, l \in Objs :
        /\ Room(o)
        /\ DoneWith("add_local", o, add_local(heap, o, l), heap[l].uuid, FALSE)

RemoveLocal ==
    \E o \in Targets, l \in Objs :
        Done("remove_local", o, remove_local(heap, o, heap[l].uuid), NoPre)

GetChildren ==
    \E o \in Targets : Done("get_children", o, get_children_call(heap, o), NoPre)

GetContentStr ==
    \E o \in Targets : Done("content_str", o, get_content_str(heap, o), NoPre)

SetContentStr ==
    \E o \in Targets, s \in Contents :
        Done("content_str=", o, set_content_str(heap, o, s), NoPre)

GetContentType ==
    \E o \in Targets : Done("content_type", o, get_content_type(heap, o), NoPre)

Next ==
    \/ Construct
    \/ GetChildren
    \/ GetContentStr
    \/ SetContentStr
    \/ GetContentType
    \/ MakeComplex
    \/ MakeSimple
    \/ UpdateContent
    \/ Update
    \/ AddChild
    \/ RemoveChild
    \/ AddLocal
    \/ RemoveLocal

Spec == Init /\ [][Next]_vars

\* -------------------------------------------------- actions on one Content
MaxContentSeq == 2  \* sequence numbers handed out by the Content under test

\* the units offered to the Content under test: one with name and description,
\* one whose description is empty
ContentPool ==
    LET u1 == Workable(<< >>, "n", "d", TRUE, "a", "code")
        u2 == Workable(<<u1>>, "n", "", TRUE, "a", "code")
    IN <<u1, u2>>

\* ids a frame may reference: none, that of a pooled unit, one of no pooled unit
RefIds == {None, 11, 14}

\* the arguments offered to add_frame, <<name, frame_type, uuid, is_local>>:
\* no name, no uuid, a child frame of a pooled unit, the same turned local by
\* the flag, a local frame of no pooled unit, an empty frame without uuid
FrameArgs ==
    {<<"", "child", 11, FALSE>>, <<"n", "child", None, FALSE>>,
     <<"n", "child", 11, FALSE>>, <<"n", "child", 11, TRUE>>,
     <<"n", "local", 14, FALSE>>, <<"n", "empty", None, FALSE>>}

\* the targets offered to move_frame: negative, existing, past the last seq
MoveTargets == (0 - 1)..MaxContentSeq

\* frames moved in one run
MaxMoves == 3

\* One call on the Content under test. last keeps the call's outcome and the
\* seq it returned (0: none); note adds what the call was given.
ContentDone(op, r, ret, note) ==
    /\ cont' = r.c
    /\ last' = [op |-> op, obj |-> None, res |-> r.res, pre |-> note.pre,
                args |-> note.args, ret |-> ret, origin |-> note.origin]
    /\ hist' = [issued |-> IF ret > hist.issued THEN ret ELSE hist.issued,
                moves |-> IF op = "move_frame" /\ r.c # cont
                          THEN hist.moves + 1 ELSE hist.moves]
    /\ UNCHANGED <<heap, workables, mm>>

\* a call of which only the outcome is kept
NoNote == [args |-> << >>, pre |-> NoPre, origin |-> << >>]

\* a call of which the arguments are kept
Args(args) == [args |-> args, pre |-> NoPre, origin |-> << >>]

InitContent ==
    /\ heap = ContentPool
    /\ cont = ContentDefault
    /\ hist = NoHist
    /\ workables = WorkableManager
    /\ mm = MessageManager
    /\ last = [op |-> "init", obj |-> None, res |-> "ok", pre |-> NoPre,
               args |-> << >>, ret |-> 0, origin |-> << >>]

ContentAddFrame ==
    /\ cont.next_seq <= MaxContentSeq
    /\ \E a \in FrameArgs :
          LET r == add_frame(cont, a[1], "d", a[2], a[3], a[4])
          IN ContentDone("add_frame", r, r.seq, NoNote)

ContentAddLocalWorkable ==
    /\ cont.next_seq <= MaxContentSeq
    /\ \E l \in Objs :
          LET r == add_local_workable(cont, heap, l)
          IN ContentDone("add_local_workable", r, r.seq, Args(<<l>>))

ContentRemoveFrame ==
    \E seq \in 0..MaxContentSeq :
        ContentDone("remove_frame", remove_frame(cont, seq), 0, NoNote)

ContentRemoveLocalWorkable ==
    \E uuid \in RefIds \ {None} :
        ContentDone("remove_local_workable", remove_local_workable(cont, uuid), 0,
                    Args(<<uuid>>))

\* A move that moved a frame is kept with its arguments and the seq dict it
\* found. A move that takes back the move made just before it, whatever its
\* outcome, also keeps the seq dict which that earlier move had found.
ContentMoveFrame ==
    /\ hist.moves < MaxMoves
    /\ \E from_seq \in 0..MaxContentSeq, to_seq \in MoveTargets :
          LET r == move_frame(cont, from_seq, to_seq)
              origin == IF last.op = "move_frame" /\ last.args = <<to_seq, from_seq>>
                        THEN <<last.pre>> ELSE << >>
          IN IF r.c # cont
             THEN ContentDone("move_frame", r, 0,
                              [args |-> <<from_seq, to_seq>>,
                               pre |-> cont.frames_by_seq, origin |-> origin])
             ELSE ContentDone("move_frame", r, 0,
                              [args |-> << >>, pre |-> NoPre, origin |-> origin])

\* repair hands out one seq for each ghost. It is kept with the report that
\* validate gave it; a repair that follows a repair also keeps the report
\* which that earlier repair was given.
ContentRepair ==
    /\ cont.next_seq + Len(validate(cont).ghost_workables) <= MaxContentSeq + 1
    /\ LET r == repair(cont, heap)
       IN ContentDone("repair", r, r.seq,
                      [args |-> << >>, pre |-> validate(cont),
                       origin |-> IF last.op = "repair" THEN <<last.pre>> ELSE << >>])

ContentClearFrames ==
    ContentDone("clear_frames", clear_frames(cont), 0, NoNote)

NextContent ==
    \/ ContentClearFrames
    \/ ContentAddFrame
    \/ ContentAddLocalWorkable
    \/ ContentRemoveFrame
    \/ ContentRemoveLocalWorkable
    \/ ContentMoveFrame
    \/ ContentRepair

SpecContent == InitContent /\ [][NextContent]_vars

\* ------------------------------------------- actions on a WorkableManager
MaxUnits == 3       \* objects allocated in a run with a WorkableManager
MaxParents == 2     \* objects that are given children and local units

Parents == {o \in Objs : o <= MaxParents}

\* the ids a call of uuid4 can return: one no object has, or, when ids collide,
\* one that is registered already
IdDraws == {uuid4(heap)} \cup {workables[i].key : i \in 1..Len(workables)}

UnknownId == 99

ManagerDone(op, obj, r, pre) ==
    /\ heap' = r.heap
    /\ workables' = r.workables
    /\ last' = [op |-> op, obj |-> obj, res |-> r.res, pre |-> pre]
    /\ UNCHANGED <<cont, hist, mm>>

\* the result of a call on a unit, the registry being left as it is
OnUnit(r) == [res |-> r.res, heap |-> r.heap, workables |-> workables]

InitManager ==
    /\ heap = << >>
    /\ cont = ContentDefault
    /\ hist = NoHist
    /\ workables = WorkableManager
    /\ mm = MessageManager
    /\ last = [op |-> "init", obj |-> None, res |-> "ok", pre |-> NoPre]

\* Units are created before the first call on any of them, as in Construct.
Creating == last.op \in {"init", "create_simple", "create_complex"}

ManagerCreateSimple ==
    /\ Len(heap) < MaxUnits
    /\ Creating
    /\ \E id \in IdDraws, name \in {"n", ""}, content \in {"", "a"} :
          ManagerDone("create_simple", id,
                      create_simple(heap, workables, id, name, "d", content, "code"),
                      <<name, "">>)

ManagerCreateComplex ==
    /\ Len(heap) < MaxUnits
    /\ Creating
    /\ \E id \in IdDraws, name \in {"n", ""} :
          ManagerDone("create_complex", id,
                      create_complex(heap, workables, id, name, "d"), <<name, "">>)

ManagerDelete ==
    \E uuid \in {workables[i].key : i \in 1..Len(workables)} \cup {UnknownId} :
        ManagerDone("delete", uuid, delete(heap, workables, uuid),
                    IF \E i \in 1..Len(workables) :
                          uuid \in child_workables(heap, workables[i].val)
                    THEN <<"child", "">> ELSE NoPre)

UnitAddChild ==
    \E o \in Parents, c \in Objs :
        /\ Room(o)
        /\ ManagerDone("add_child", o, OnUnit(add_child(heap, o, c)), NoPre)

UnitAddLocal ==
    \E o \in Parents, l \in Objs :
        /\ Room(o)
        /\ ManagerDone("add_local", o, OnUnit(add_local(heap, o, l)), NoPre)

UnitMakeComplex ==
    \E o \in Parents :
        /\ (is_atom(heap[o]) /\ heap[o].content.content # "") => Len(heap) < MaxUnits
        /\ ManagerDone("make_complex", o, OnUnit(make_complex(heap, o)), NoPre)

NextManager ==
    \/ ManagerCreateSimple
    \/ ManagerCreateComplex
    \/ ManagerDelete
    \/ UnitAddChild
    \/ UnitAddLocal
    \/ UnitMakeComplex

SpecManager == InitManager /\ [][NextManager]_vars

\* ---------------------------------- structure and conversion by the Registry
RegisteredIds == {workables[i].key : i \in 1..Len(workables)}

\* what update_complex_structure is asked to add or to remove: None for none
ManagerUpdateStructure ==
    \E uuid \in RegisteredIds \cup {UnknownId},
       child \in RegisteredIds \cup {UnknownId},
       adding \in BOOLEAN :
        /\ (adding /\ DictHas(workables, uuid)) => Room(DictGet(workables, uuid))
        /\ ManagerDone(IF adding THEN "add_child" ELSE "remove_child", uuid,
                       update_complex_structure(heap, workables, uuid,
                            IF adding THEN child ELSE None,
                            IF adding THEN None ELSE child),
                       <<child>>)

ManagerConvertToSimple ==
    \E uuid \in RegisteredIds \cup {UnknownId} :
        ManagerDone("convert_to_simple", uuid, convert_to_simple(heap, workables, uuid),
                    NoPre)

\* make_complex on a registered unit, reached through read(uuid)
ManagerMakeComplex ==
    \E uuid \in RegisteredIds :
        LET o == read(workables, uuid)
        IN /\ (is_atom(heap[o]) /\ heap[o].content.content # "") => Len(heap) < MaxUnits
           /\ ManagerDone("make_complex", uuid, OnUnit(make_complex(heap, o)), NoPre)

NextConvert ==
    \/ ManagerCreateSimple
    \/ ManagerCreateComplex
    \/ ManagerUpdateStructure
    \/ ManagerMakeComplex
    \/ ManagerConvertToSimple

SpecConvert == InitManager /\ [][NextConvert]_vars

NextStructure ==
    \/ ManagerCreateSimple
    \/ ManagerCreateComplex
    \/ ManagerUpdateStructure
    \/ ManagerDelete

SpecStructure == InitManager /\ [][NextStructure]_vars

\* ------------------------------------------- actions on a MessageManager
MaxMessages == 3    \* messages ever appended

MessageIds == {1, 2}

\* a message is built and appended: its content is its arrival number
MessageAppend ==
    /\ Len(mm.inbox) + Len(mm.archived) < MaxMessages
    /\ \E status \in {"inbox", "processing", "archive", "done"}, id \in MessageIds :
          /\ mm' = append_message(mm, Message(Len(mm.inbox) + Len(mm.archived) + 1,
                                              status, id))
          /\ last' = [op |-> "append", obj |-> None, res |-> "ok", pre |-> NoPre,
                      args |-> <<status, id>>, ret |-> << >>]
    /\ UNCHANGED <<heap, cont, hist, workables>>

MessageProcessNext ==
    /\ mm' = process_next(mm).m
    /\ last' = [op |-> "process_next", obj |-> None, res |-> "ok", pre |-> NoPre,
                args |-> << >>, ret |-> process_next(mm).ret]
    /\ UNCHANGED <<heap, cont, hist, workables>>

MessageArchive ==
    /\ \E id \in MessageIds \cup {UnknownId} :
          /\ mm' = archive_message(mm, id).m
          /\ last' = [op |-> "archive_message", obj |-> None, res |-> "ok",
                      pre |-> NoPre, args |-> <<id>>,
                      ret |-> <<archive_message(mm, id).ret>>]
    /\ UNCHANGED <<heap, cont, hist, workables>>

InitMessage ==
    /\ heap = << >>
    /\ cont = ContentDefault
    /\ hist = NoHist
    /\ workables = WorkableManager
    /\ mm = MessageManager
    /\ last = [op |-> "init", obj |-> None, res |-> "ok", pre |-> NoPre,
               args |-> << >>, ret |-> << >>]

NextMessage ==
    \/ MessageAppend
    \/ MessageProcessNext
    \/ MessageArchive

SpecMessage == InitMessage /\ [][NextMessage]_vars

\* ------------------------------ actions on units that were given a manager
MaxLookups == 3

\* (is_atom, content_str, given the manager)
LookupTemplates == {<<FALSE, "", TRUE>>, <<FALSE, "", FALSE>>, <<TRUE, "a", TRUE>>}

\* One call. last keeps its outcome, the units it returned and the child
\* cache which it found.
LookupDone(op, o, r, ret, pre) ==
    /\ heap' = r.heap
    /\ workables' = r.workables
    /\ last' = [op |-> op, obj |-> o, res |-> r.res, pre |-> pre, ret |-> ret]
    /\ UNCHANGED <<cont, hist, mm>>

InitLookup ==
    /\ heap = << >>
    /\ cont = ContentDefault
    /\ hist = NoHist
    /\ workables = WorkableManager
    /\ mm = MessageManager
    /\ last = [op |-> "init", obj |-> None, res |-> "ok", pre |-> << >>, ret |-> << >>]

\* Units are constructed before the first call on any of them.
LookupConstruct ==
    /\ Len(heap) < MaxLookups
    /\ last.op \in {"init", "construct"}
    /\ \E t \in LookupTemplates :
          LET w == IF t[3] THEN Workable_managed(heap, "n", "d", t[1], t[2], "code")
                   ELSE Workable(heap, "n", "d", t[1], t[2], "code")
          IN LookupDone("construct", Len(heap) + 1,
                        [res |-> "ok", heap |-> Append(heap, w), workables |-> workables],
                        << >>, << >>)

LookupRegister ==
    \E o \in Objs :
        LET r == register_workable(heap, workables, o)
        IN LookupDone("register_workable", o,
                      [res |-> r.res, heap |-> heap, workables |-> r.workables],
                      << >>, << >>)

LookupUnregister ==
    \E o \in Objs :
        LET r == unregister_workable(workables, heap[o].uuid)
        IN LookupDone("unregister_workable", o,
                      [res |-> r.res, heap |-> heap, workables |-> r.workables],
                      << >>, << >>)

LookupAddChild ==
    \E o \in Targets, c \in Objs :
        /\ Room(o)
        /\ LookupDone("add_child", o, OnUnit(add_child(heap, o, c)), << >>, << >>)

LookupSetChildWorkables ==
    \E o \in Targets :
        LookupDone("child_workables=", o, OnUnit(set_child_workables(heap, o, << >>)),
                   << >>, << >>)

LookupGetChildren ==
    \E o \in Targets :
        LET r == get_children_managed(heap, workables, o)
        IN LookupDone("get_children", o, OnUnit(r), r.ret, heap[o].child_references)

NextLookup ==
    \/ LookupConstruct
    \/ LookupRegister
    \/ LookupUnregister
    \/ LookupAddChild
    \/ LookupSetChildWorkables
    \/ LookupGetChildren

SpecLookup == InitLookup /\ [][NextLookup]_vars

\* ------------------------------------------------------------ observations
\* the frames of a Content of one type, read from the seq index itself
FramesOfType(c, frame_type) ==
    {s \in DOMAIN c.frames_by_seq : c.frames_by_seq[s].frame_type = frame_type}

\* the step taken is op on object o
Step(op, o) == last'.op = op /\ last'.obj = o

\* ------------------------------------------------------------------ claims

\* C1 (as claimed): after make_complex() returned on an atomic unit with payload
\* P, an immediately following make_simple() succeeds and leaves the unit atomic
\* with the same id, payload P and no local units.
C1_RoundTrip ==
    [][\A o \in Objs :
          (/\ last.op = "make_complex" /\ last.obj = o /\ last.res = "ok"
           /\ last.pre[2] # ""
           /\ Step("make_simple", o))
          => /\ last'.res = "ok"
             /\ is_atom(heap'[o])
             /\ heap'[o].uuid = heap[o].uuid
             /\ payload(heap'[o]) = last.pre
             /\ get_locals(heap', o) = << >>]_vars

\* C2: no operation changes the id of any unit.
C2_IdNeverChanges ==
    [][\A o \in Objs : heap'[o].uuid = heap[o].uuid]_vars

\* C2 witness: a unit has gone through make_complex and back through make_simple.
C2_Witness ==
    /\ last.op = "make_simple" /\ last.res = "ok"
    /\ is_atom(heap[last.obj])
    /\ \E l \in Objs : heap[l].is_converted_content

\* C3: make_simple() on a composite unit that has a child frame raises
\* ConversionError and changes nothing.
C3_ChildrenBlockMakeSimple ==
    [][\A o \in Objs :
          (/\ Step("make_simple", o)
           /\ is_complex(heap[o])
           /\ FramesOfType(heap[o].content, "child") # {})
          => /\ last'.res = "ConversionError"
             /\ heap' = heap]_vars

\* C3 witness: make_simple was refused on a composite unit holding a child frame.
C3_Witness ==
    /\ last.op = "make_simple" /\ last.res = "ConversionError"
    /\ is_complex(heap[last.obj])
    /\ FramesOfType(heap[last.obj].content, "child") # {}

HoldsConverted(h, o) ==
    \E i \in 1..Len(h[o].local_references) :
        h[h[o].local_references[i].val].is_converted_content

C5_PayloadOfTheSingleLocal ==
    [][\A o \in Objs :
          (/\ Step("make_simple", o) /\ last'.res = "ok"
           /\ is_complex(heap[o])
           /\ Len(get_locals(heap, o)) = 1
           /\ Cardinality(FramesOfType(heap[o].content, "local")) = 1)
          => /\ is_atom(heap'[o])
             /\ payload(heap'[o]) = payload(heap[get_locals(heap, o)[1]])
             /\ get_locals(heap', o) = << >>
             /\ FramesOfType(heap'[o].content, "local") = {}]_vars

\* C6 (as claimed): make_complex() on an atomic unit with a non-empty payload
\* (T, S) returns normally and leaves the unit composite, without inline payload,
\* with exactly one local unit, which is atomic and has payload (T, S).
C6_MakeComplexMaterializes ==
    [][\A o \in Objs :
          (/\ Step("make_complex", o)
           /\ is_atom(heap[o])
           /\ heap[o].content.content # "")
          => /\ last'.res = "ok"
             /\ is_complex(heap'[o])
             /\ heap'[o].content.content = ""
             /\ Len(get_locals(heap', o)) = 1
             /\ is_atom(heap'[get_locals(heap', o)[1]])
             /\ payload(heap'[get_locals(heap', o)[1]]) = payload(heap[o])]_vars

\* C7: make_complex() on a composite unit returns normally and changes nothing,
\* so a second make_complex() leaves what the first one left.
C7_MakeComplexNoOpOnComposite ==
    [][\A o \in Objs :
          (Step("make_complex", o) /\ is_complex(heap[o]))
          => /\ last'.res = "ok"
             /\ heap' = heap
             /\ make_complex(heap', o).heap = heap']_vars

\* C7 witness: make_complex returned on a composite unit that holds a child and
\* a local unit.
C7_Witness ==
    /\ last.op = "make_complex" /\ last.res = "ok" /\ last.pre = NoPre
    /\ is_complex(heap[last.obj])
    /\ get_children(heap, last.obj) # << >>
    /\ get_locals(heap, last.obj) # << >>

\* C8: an atomic unit has no child frame in its Content.
C8_AtomicHasNoChildFrame ==
    \A o \in Objs : is_atom(heap[o]) => FramesOfType(heap[o].content, "child") = {}

\* C8 witness: add_child was refused on an atomic unit whose Content holds a
\* frame.
C8_Witness ==
    /\ last.op = "add_child" /\ last.res = "AttributeError"
    /\ is_atom(heap[last.obj])
    /\ heap[last.obj].content.frames_by_seq # EmptyMap

\* C9: a composite unit carries no inline payload.
C9_CompositeHasNoPayload ==
    \A o \in Objs : is_complex(heap[o]) => heap[o].content.content = ""

\* C9 witness: a unit was made composite from an atomic unit with a payload.
C9_Witness ==
    /\ last.op = "make_complex" /\ last.res = "ok" /\ last.pre[2] # ""
    /\ is_complex(heap[last.obj])

\* C10 (as claimed): after any sequence of add_frame, add_local_workable,
\* remove_frame and remove_local_workable calls on a Content, validate() returns
\* (true, [], []).
C10_ContentAlwaysValid ==
    validate(cont) = [is_valid |-> TRUE, orphan_frames |-> << >>,
                      ghost_workables |-> << >>]

\* the seqs the type index holds for one frame type
TypeIndex(c, frame_type) ==
    IF frame_type \in DOMAIN c.frames_by_type THEN c.frames_by_type[frame_type] ELSE {}

\* the seqs the uuid index holds for one referenced id
UuidIndex(c, uuid) ==
    IF uuid \in DOMAIN c.frames_by_uuid THEN c.frames_by_uuid[uuid] ELSE {}

\* the frames of a Content that reference uuid, read from the seq index itself
FramesOfUuid(c, uuid) ==
    {s \in DOMAIN c.frames_by_seq : get_reference_uuid(c.frames_by_seq[s]) = uuid}

\* the frame types in use
FrameTypes == {"reference", "child", "local", "empty"}

\* C11 (as claimed): after any sequence of add_frame, add_local_workable,
\* remove_frame, remove_local_workable and move_frame calls, the type index
\* holds for every frame type exactly the seqs of the frames of that type.
C11_TypeIndexConsistent ==
    \A t \in FrameTypes \cup DOMAIN cont.frames_by_type :
        TypeIndex(cont, t) = FramesOfType(cont, t)

\* C12 (as claimed): after any sequence of add_frame, add_local_workable,
\* remove_frame, remove_local_workable and move_frame calls, the uuid index
\* holds for every id exactly the seqs of the frames that reference it.
C12_UuidIndexConsistent ==
    \A u \in (RefIds \ {None}) \cup DOMAIN cont.frames_by_uuid :
        UuidIndex(cont, u) = FramesOfUuid(cont, u)

\* C13: when move_frame(b, a) is called right after a move_frame(a, b) that
\* moved a frame, it succeeds and every frame is back at the seq it had before
\* the first of the two moves, whether or not the seqs are contiguous.
C13_MoveRoundTrip ==
    (last.op = "move_frame" /\ last.origin # << >>)
        => /\ last.res = "ok"
           /\ cont.frames_by_seq = last.origin[1]

\* C13 witness: a move was taken back, the frames sit at seqs with a gap, and
\* the move that was taken back had shifted another frame
C13_Witness ==
    /\ last.op = "move_frame" /\ last.res = "ok" /\ last.origin # << >>
    /\ last.args # << >>
    /\ cont.frames_by_seq = last.origin[1]
    /\ \E s \in DOMAIN cont.frames_by_seq :
          /\ s + 1 \notin DOMAIN cont.frames_by_seq
          /\ s + 2 \in DOMAIN cont.frames_by_seq
    /\ \E s \in DOMAIN cont.frames_by_seq \ {last.args[2]} :
          new_seq_of(s, last.args[2], last.args[1]) # s

\* C14 (as claimed): move_frame(from_seq, to_seq) moves a frame only when
\* from_seq is an existing seq and to_seq is neither negative nor greater than
\* the highest seq present; otherwise it raises ContentError, and when it
\* raises the frames, the indices and the next-seq counter are as before.
C14_MoveRejectsOutOfRange ==
    [][last'.op = "move_frame"
          => /\ (last'.res = "ok" /\ last'.args # << >>)
                  => /\ last'.args[1] \in DOMAIN cont.frames_by_seq
                     /\ last'.args[2] >= 0
                     /\ last'.args[2] <= MaxOf(DOMAIN cont.frames_by_seq)
             /\ last'.res = "ContentError" => cont' = cont]_vars

\* C15 (as claimed): every seq returned by add_frame is greater than every seq
\* add_frame has returned before on the same Content, whatever remove_frame,
\* remove_local_workable and move_frame calls were made in between.
C15_SeqStrictlyIncreasing ==
    [][(last'.op = "add_frame" /\ last'.res = "ok")
          => last'.ret > hist.issued]_vars

\* the seqs or ids of a list that validate returns
Reported(list) == {list[i] : i \in 1..Len(list)}

\* validate() = (True, [], [])
Valid(c) ==
    validate(c) = [is_valid |-> TRUE, orphan_frames |-> << >>,
                   ghost_workables |-> << >>]

Cached(c) == {c.local_workables_cache[i].key : i \in 1..Len(c.local_workables_cache)}

\* the local-type frames of a Content that reference uuid
LocalFramesOf(c, uuid) == FramesOfType(c, "local") \cap FramesOfUuid(c, uuid)

\* C18 (as claimed): validate() reports as orphans exactly the seqs of the
\* local-type frames whose referenced id is not cached, and as ghosts exactly
\* the cached ids that no local-type frame references (so a cached id that
\* only child- or reference-type frames reference is a ghost); is_valid is
\* true exactly when both lists are empty.
C18_ValidateReportsOrphansAndGhosts ==
    LET v == validate(cont)
    IN /\ Reported(v.orphan_frames) =
              {s \in FramesOfType(cont, "local") :
                  get_reference_uuid(cont.frames_by_seq[s]) \notin Cached(cont)}
       /\ Reported(v.ghost_workables) =
              {u \in Cached(cont) : LocalFramesOf(cont, u) = {}}
       /\ v.is_valid <=> (v.orphan_frames = << >> /\ v.ghost_workables = << >>)

\* the step has cached the unit l and added one local-type frame referencing
\* it, at a seq that was free, and returned that seq
AddedLocal(l) ==
    /\ last'.res = "ok"
    /\ cont'.local_workables_cache = DictSet(cont.local_workables_cache, heap[l].uuid, l)
    /\ last'.ret \notin DOMAIN cont.frames_by_seq
    /\ cont'.frames_by_seq =
          MapSet(cont.frames_by_seq, last'.ret,
                 WorkableFrame(heap[l].name, heap[l].logic_description, last'.ret,
                               "local", heap[l].uuid))

\* C19 (as claimed): add_local_workable of a unit whose id is cached raises
\* ContentError and leaves the Content as it was; of a unit whose id is not
\* cached it caches the unit, adds exactly one local-type frame referencing it
\* and returns that frame's seq.
C19_AddLocalUnit ==
    [][last'.op = "add_local_workable"
          => IF heap[last'.args[1]].uuid \in Cached(cont)
             THEN last'.res = "ContentError" /\ cont' = cont
             ELSE AddedLocal(last'.args[1])]_vars

\* C19 (amended): add_local_workable of a unit whose id is cached raises
\* ContentError and leaves the Content as it was; of a unit whose id is not
\* cached and whose name and description are not empty it caches the unit,
\* adds exactly one local-type frame referencing it and returns that frame's
\* seq; of a unit whose id is not cached and whose name or description is
\* empty it raises ContentError.
C19_AddLocalUnitWithDescription ==
    [][last'.op = "add_local_workable"
          => LET l == last'.args[1]
             IN IF heap[l].uuid \in Cached(cont)
                THEN last'.res = "ContentError" /\ cont' = cont
                ELSE IF heap[l].name = "" \/ heap[l].logic_description = ""
                THEN last'.res = "ContentError"
                ELSE AddedLocal(l)]_vars

\* C19 witness: a unit has been added next to a frame that was there before,
\* and the frame returned is the only local-type frame referencing it
C19_Witness ==
    /\ last.op = "add_local_workable" /\ last.res = "ok"
    /\ heap[last.args[1]].uuid \in Cached(cont)
    /\ LocalFramesOf(cont, heap[last.args[1]].uuid) = {last.ret}
    /\ Cardinality(DOMAIN cont.frames_by_seq) >= 2

\* C20 (as claimed): remove_local_workable(id) for a cached id returns true,
\* takes id out of the local cache and removes every frame referencing id:
\* afterwards no frame references id and the uuid index has no entry for it,
\* while the frames referencing other ids and the other cache entries are as
\* they were.
C20_RemoveLocalUnit ==
    [][(last'.op = "remove_local_workable" /\ last'.args[1] \in Cached(cont))
          => LET id == last'.args[1]
             IN /\ last'.res = "ok"
                /\ cont'.local_workables_cache = DictDel(cont.local_workables_cache, id)
                /\ FramesOfUuid(cont', id) = {}
                /\ id \notin DOMAIN cont'.frames_by_uuid
                /\ \A s \in DOMAIN cont.frames_by_seq \ FramesOfUuid(cont, id) :
                      /\ s \in DOMAIN cont'.frames_by_seq
                      /\ cont'.frames_by_seq[s] = cont.frames_by_seq[s]]_vars

\* the ids the registry holds
Registered(ws) == {ws[i].key : i \in 1..Len(ws)}

\* C21 (as claimed): when create_simple or create_complex, called with a valid
\* name, builds a unit whose id is registered already, the id is drawn again
\* and the call succeeds: the units registered before stay as they were and
\* the new unit is registered next to them under an id of its own.
C21_CollisionRetried ==
    [][(/\ last'.op \in {"create_simple", "create_complex"}
        /\ last'.pre[1] # ""
        /\ last'.obj \in Registered(workables))
       => /\ last'.res = "ok"
          /\ Len(workables') = Len(workables) + 1
          /\ \A i \in 1..Len(workables) : workables'[i] = workables[i]
          /\ Cardinality(Registered(workables')) = Len(workables')]_vars

\* the ids the child frames of a Content refer to
ChildIds(c) ==
    {get_reference_uuid(c.frames_by_seq[s]) : s \in FramesOfType(c, "child")}

LocalIds(c) ==
    {get_reference_uuid(c.frames_by_seq[s]) : s \in FramesOfType(c, "local")}

\* the registered composite units that refer to id x by a child or local frame
ParentsOf(h, ws, x) ==
    {ws[i].key : i \in {j \in 1..Len(ws) :
                          /\ is_complex(h[ws[j].val])
                          /\ x \in ChildIds(h[ws[j].val].content)
                                \cup LocalIds(h[ws[j].val].content)}}

\* every id a child or local frame of a registered composite unit refers to
Referenced(h, ws) ==
    UNION {ChildIds(h[ws[i].val].content) \cup LocalIds(h[ws[i].val].content) :
              i \in {j \in 1..Len(ws) : is_complex(h[ws[j].val])}}

\* C23 (as claimed): build_parent_map() maps every id that a child frame or a
\* local frame of a registered composite unit refers to, to such a unit, and
\* has no other key.
C23_ParentMapCoversChildrenAndLocals ==
    LET parent_map == build_parent_map(heap, workables)
    IN /\ DOMAIN parent_map = Referenced(heap, workables)
       /\ \A x \in DOMAIN parent_map : parent_map[x] \in ParentsOf(heap, workables, x)

\* C24 (as claimed): get_all_roots() is the set of registered ids that are not
\* keys of build_parent_map(); a registered unit is a root exactly when no
\* registered composite unit refers to it by a child or a local frame.
C24_RootsAreUnreferenced ==
    LET roots == get_all_roots(heap, workables)
    IN /\ roots = Registered(workables) \ DOMAIN build_parent_map(heap, workables)
       /\ roots \subseteq Registered(workables)
       /\ \A x \in Registered(workables) :
             x \in roots <=> ParentsOf(heap, workables, x) = {}

\* the calls that need a composite unit, and those that need an atomic one
CompositeOnly == {"add_child", "remove_child", "get_children"}

AtomicOnly == {"content_str", "content_str=", "content_type", "update_content"}

\* C25: a call made in the wrong mode (add_child, remove_child, get_children
\* on an atomic unit; reading or writing content_str, reading content_type,
\* update_content on a composite unit) raises AttributeError and changes
\* nothing: no unit's mode, payload, frames, children or locals.
C25_WrongModeFaults ==
    [][\A o \in Targets :
          (/\ last'.obj = o
           /\ \/ last'.op \in CompositeOnly /\ is_atom(heap[o])
              \/ last'.op \in AtomicOnly /\ is_complex(heap[o]))
          => /\ last'.res = "AttributeError"
             /\ heap' = heap]_vars

\* remove_child has been refused on an atomic unit that holds a local unit
C25_Witness ==
    /\ last.op = "remove_child"
    /\ last.res = "AttributeError"
    /\ is_atom(heap[last.obj])
    /\ get_locals(heap, last.obj) # << >>

\* C26: remove_child(id) on a composite unit returns true exactly when a child
\* frame referred to id, leaves no child frame referring to id and no unit with
\* that id in get_children(), leaves every other frame as it was, and leaves
\* content.validate() at (true, [], []) when it was so before; when id was the
\* only child, get_children() is empty afterwards.
C26_RemoveChildRemovesAll ==
    [][\A o \in Targets :
          (Step("remove_child", o) /\ is_complex(heap[o]))
          => LET id == last'.arg
                 c == heap[o].content
                 after == heap'[o].content
             IN /\ last'.res = "ok"
                /\ last'.ret = (id \in ChildIds(c))
                /\ id \notin ChildIds(after)
                /\ \A j \in 1..Len(get_children(heap', o)) :
                      heap'[get_children(heap', o)[j]].uuid # id
                /\ DOMAIN after.frames_by_seq
                   = {s \in DOMAIN c.frames_by_seq :
                         \/ c.frames_by_seq[s].frame_type # "child"
                         \/ get_reference_uuid(c.frames_by_seq[s]) # id}
                /\ \A s \in DOMAIN after.frames_by_seq :
                      after.frames_by_seq[s] = c.frames_by_seq[s]
                /\ validate(c).is_valid => validate(after).is_valid
                /\ ChildIds(c) \subseteq {id} => get_children(heap', o) = << >>]_vars

\* remove_child has found and removed a child, and the child frame of another
\* unit is left in a Content that validates
C26_Witness ==
    /\ last.op = "remove_child"
    /\ last.res = "ok"
    /\ last.ret
    /\ ChildIds(heap[last.obj].content) # {}
    /\ validate(heap[last.obj].content).is_valid

\* C27 (as claimed): add_child with a unit whose id a child frame of the
\* composite unit refers to already succeeds and replaces the reference:
\* afterwards get_children() holds that unit exactly once.
C27_ReAddOverwrites ==
    [][\A o \in Targets :
          (/\ Step("add_child", o)
           /\ is_complex(heap[o])
           /\ last'.arg \in ChildIds(heap[o].content))
          => /\ last'.res = "ok"
             /\ Cardinality({j \in 1..Len(get_children(heap', o)) :
                               heap'[get_children(heap', o)[j]].uuid = last'.arg}) = 1]_vars

\* the object that has the id uuid
ObjOf(h, uuid) == CHOOSE i \in 1..Len(h) : h[i].uuid = uuid

\* the objects get_locals() returns
LocalsOf(h, o) == {get_locals(h, o)[j] : j \in 1..Len(get_locals(h, o))}

\* C28 (as claimed): add_local with a composite unit fails and leaves the
\* owner's frames and local units as they were; with an atomic unit it
\* succeeds, whatever the mode of the owner, and get_locals() of the owner
\* then includes the unit.
C28_AddLocal ==
    [][\A o \in Targets :
          Step("add_local", o)
          => LET l == ObjOf(heap, last'.arg)
             IN IF is_complex(heap[l])
                THEN /\ last'.res = "WorkableError"
                     /\ heap'[o].content = heap[o].content
                     /\ get_locals(heap', o) = get_locals(heap, o)
                ELSE /\ last'.res = "ok"
                     /\ l \in LocalsOf(heap', o)]_vars

\* C28 (amended): add_local with a composite unit fails and leaves the owner's
\* frames and local units as they were; with an atomic unit that has a name
\* and a description it succeeds, whatever the mode of the owner, and
\* get_locals() of the owner then includes the unit.
C28_AddLocalDescribed ==
    [][\A o \in Targets :
          Step("add_local", o)
          => LET l == ObjOf(heap, last'.arg)
             IN IF is_complex(heap[l])
                THEN /\ last'.res = "WorkableError"
                     /\ heap'[o].content = heap[o].content
                     /\ get_locals(heap', o) = get_locals(heap, o)
                ELSE (heap[l].name # "" /\ heap[l].logic_description # "")
                     => /\ last'.res = "ok"
                        /\ l \in LocalsOf(heap', o)]_vars

\* an atomic owner has taken another atomic unit as a local unit
C28_Witness ==
    /\ last.op = "add_local"
    /\ last.res = "ok"
    /\ is_atom(heap[last.obj])
    /\ last.arg # heap[last.obj].uuid
    /\ ObjOf(heap, last.arg) \in LocalsOf(heap, last.obj)

\* C29 (as claimed): in every state the Unit operations reach, the id of every
\* local unit a unit holds is in the local cache of its Content, and
\* content.validate() of the unit is (true, [], []).
C29_LocalsStoredThroughContent ==
    \A o \in Objs :
        /\ \A l \in LocalsOf(heap, o) : heap[l].uuid \in Cached(heap[o].content)
        /\ validate(heap[o].content)
           = [is_valid |-> TRUE, orphan_frames |-> << >>, ghost_workables |-> << >>]

\* every message the manager holds
Held(m) == {m.inbox[i] : i \in 1..Len(m.inbox)}
               \cup {m.archived[i] : i \in 1..Len(m.archived)}

\* how far the message with arrival number n has come: 0 in the inbox,
\* 1 in processing, 2 in the archive
Stage(m, n) ==
    IF \E i \in 1..Len(m.inbox) : m.inbox[i].content = n THEN 0
    ELSE IF \E i \in 1..Len(processing(m)) : processing(m)[i].content = n THEN 1
    ELSE 2

\* C30: process_next() takes the oldest message out of the inbox, returns it
\* with status processing and lists it in processing, and returns None and
\* changes nothing when the inbox is empty; archive_message(id) moves a message
\* with that id from the inbox or from processing to the archive and returns
\* true, and returns false, changing nothing, when no message has that id; no
\* message ever moves back.
C30_FifoOneWay ==
    [][/\ last'.op = "process_next"
          => IF mm.inbox = << >>
             THEN last'.ret = << >> /\ mm' = mm
             ELSE /\ last'.ret = <<[Head(mm.inbox) EXCEPT !.status = "processing"]>>
                  /\ \A i \in 1..Len(mm.inbox) :
                        last'.ret[1].content <= mm.inbox[i].content
                  /\ mm'.inbox = Tail(mm.inbox)
                  /\ processing(mm') = Append(processing(mm), last'.ret[1])
                  /\ archive(mm') = archive(mm)
       /\ last'.op = "archive_message"
          => LET id == last'.args[1]
                 pending == {msg \in Held(mm) :
                                msg.id = id /\ msg.status \in {"inbox", "processing"}}
             IN /\ pending # {}
                   => /\ last'.ret = <<TRUE>>
                      /\ \E msg \in pending :
                            /\ Len(archive(mm')) = Len(archive(mm)) + 1
                            /\ \E i \in 1..Len(archive(mm')) :
                                  archive(mm')[i] = [msg EXCEPT !.status = "archive"]
                            /\ Held(mm') = (Held(mm) \ {msg})
                                           \cup {[msg EXCEPT !.status = "archive"]}
                /\ (\A msg \in Held(mm) : msg.id # id)
                   => last'.ret = <<FALSE>> /\ mm' = mm
       /\ \A msg \in Held(mm) : Stage(mm', msg.content) >= Stage(mm, msg.content)]_vars

\* archive_message has returned true for an id carried by an archived message
\* that arrived before the message now at the head of the inbox
C30_Witness ==
    /\ last.op = "archive_message"
    /\ last.ret = <<TRUE>>
    /\ mm.inbox # << >>
    /\ \E i \in 1..Len(archive(mm)) :
          /\ archive(mm)[i].content < mm.inbox[1].content
          /\ archive(mm)[i].id = last.args[1]

Between(seq, from_seq, to_seq) ==
    \/ from_seq < to_seq /\ from_seq < seq /\ seq <= to_seq
    \/ to_seq < from_seq /\ to_seq <= seq /\ seq < from_seq

\* the seq where a move leaves the frame that was at seq: one step towards
\* the slot the moved frame left
Shifted(seq, from_seq, to_seq) ==
    IF seq = from_seq THEN to_seq
    ELSE IF ~Between(seq, from_seq, to_seq) THEN seq
    ELSE IF from_seq < to_seq THEN seq - 1 ELSE seq + 1

\* C32: move_frame(s, s) on an existing s returns and changes nothing. A
\* move_frame of an existing from_seq to another accepted to_seq keeps the
\* number of frames, puts the moved frame at to_seq, moves each frame between
\* the two positions by one towards the vacated slot, keeps every other frame
\* at its seq, keeps the order of the frames other than the moved one, and
\* leaves each frame under the seq it carries (so no two share a seq).
C32_MoveFrameRenumbers ==
    [][/\ \A s \in DOMAIN cont.frames_by_seq :
             move_frame(cont, s, s) = [res |-> "ok", c |-> cont]
       /\ last'.op = "move_frame" /\ last'.args # << >>
          => LET from_seq == last'.args[1]
                 to_seq == last'.args[2]
                 before == cont.frames_by_seq
                 after == cont'.frames_by_seq
                 others == DOMAIN before \ {from_seq}
             IN /\ last'.res = "ok"
                /\ from_seq \in DOMAIN before
                /\ Cardinality(DOMAIN after) = Cardinality(DOMAIN before)
                /\ \A seq \in DOMAIN after : after[seq].seq = seq
                /\ \A seq \in DOMAIN before :
                      LET new_seq == Shifted(seq, from_seq, to_seq)
                      IN /\ new_seq \in DOMAIN after
                         /\ after[new_seq] = [before[seq] EXCEPT !.seq = new_seq]
                /\ \A a, b \in others :
                      a < b => Shifted(a, from_seq, to_seq) < Shifted(b, from_seq, to_seq)]_vars

\* a move has just carried a frame across another one, which went the other way
C32_Witness ==
    /\ last.op = "move_frame"
    /\ last.res = "ok"
    /\ last.args # << >>
    /\ \E seq \in DOMAIN last.pre :
          /\ seq # last.args[1]
          /\ Between(seq, last.args[1], last.args[2])
          /\ cont.frames_by_seq[Shifted(seq, last.args[1], last.args[2])]
                = [last.pre[seq] EXCEPT !.seq = Shifted(seq, last.args[1], last.args[2])]
    /\ cont.frames_by_seq[last.args[2]].name = last.pre[last.args[1]].name

\* the child frames of a Content in the order of their seqs, read from the seq
\* index itself
ChildFrames(c) ==
    LET seqs == SortedSeq(FramesOfType(c, "child"))
    IN [i \in 1..Len(seqs) |-> c.frames_by_seq[seqs[i]]]

\* C33: get_children() on a composite unit returns, in the order of the child
\* frames, one unit for each child frame whose id is a key of the unit's child
\* cache or, failing that, of the Registry that the unit was given: the cached
\* unit in the first case, the registered one in the second. A frame whose id
\* is in neither yields nothing and no error, and each unit taken from the
\* Registry is in the cache afterwards; nothing else changes.
C33_GetChildrenResolves ==
    [][last'.op = "get_children" /\ ~is_atom(heap[last'.obj])
       => LET o == last'.obj
              cache == heap[o].child_references
              InRegistry(uuid) == heap[o].manager /\ DictHas(workables, uuid)
              Known(frame) == \/ DictHas(cache, get_reference_uuid(frame))
                              \/ InRegistry(get_reference_uuid(frame))
              UnitOf(uuid) == IF DictHas(cache, uuid) THEN DictGet(cache, uuid)
                              ELSE DictGet(workables, uuid)
              resolved == SelectSeq(ChildFrames(heap[o].content), Known)
          IN /\ last'.res = "ok"
             /\ last'.ret = [i \in 1..Len(resolved) |->
                                UnitOf(get_reference_uuid(resolved[i]))]
             /\ \A i \in 1..Len(resolved) :
                   DictGet(heap'[o].child_references, get_reference_uuid(resolved[i]))
                      = UnitOf(get_reference_uuid(resolved[i]))
             /\ \A i \in 1..Len(heap'[o].child_references) :
                   \/ DictHas(cache, heap'[o].child_references[i].key)
                   \/ \E j \in 1..Len(resolved) :
                         get_reference_uuid(resolved[j]) = heap'[o].child_references[i].key
             /\ heap' = [heap EXCEPT ![o].child_references = heap'[o].child_references]
             /\ workables' = workables]_vars

\* get_children has returned a unit that it took from the Registry on a cache
\* miss and has skipped a child frame whose id neither knew
C33_Witness ==
    /\ last.op = "get_children"
    /\ last.res = "ok"
    /\ \E i \in 1..Len(last.ret) :
          /\ ~DictHas(last.pre, heap[last.ret[i]].uuid)
          /\ DictGet(workables, heap[last.ret[i]].uuid) = last.ret[i]
          /\ DictGet(heap[last.obj].child_references, heap[last.ret[i]].uuid) = last.ret[i]
    /\ \E s \in FramesOfType(heap[last.obj].content, "child") :
          LET uuid == get_reference_uuid(heap[last.obj].content.frames_by_seq[s])
          IN ~DictHas(heap[last.obj].child_references, uuid) /\ ~DictHas(workables, uuid)

\* the counter of a Content lies above every seq in its seq index
CounterAbove(c) == \A seq \in DOMAIN c.frames_by_seq : seq < c.next_seq

\* C34: whatever add_frame, add_local_unit, remove_frame, remove_local_unit,
\* move_frame, repair and clear_frames have done, the counter lies above every
\* seq present before and after each call, and an add_frame that returns has
\* used a seq that was free and has made the Content one frame larger.
C34_CounterAboveEverySeq ==
    [][/\ CounterAbove(cont)
       /\ CounterAbove(cont')
       /\ last'.op = "add_frame" /\ last'.res = "ok"
          => /\ last'.ret \notin DOMAIN cont.frames_by_seq
             /\ \A seq \in DOMAIN cont.frames_by_seq :
                   cont'.frames_by_seq[seq] = cont.frames_by_seq[seq]
             /\ Cardinality(DOMAIN cont'.frames_by_seq)
                   = Cardinality(DOMAIN cont.frames_by_seq) + 1]_vars

\* add_frame has handed out again a seq that it had handed out before (a move
\* or a clear_frames had lowered the counter), next to a frame that was there
C34_Witness ==
    /\ last.op = "add_frame"
    /\ last.res = "ok"
    /\ last.ret < hist.issued
    /\ Cardinality(DOMAIN cont.frames_by_seq) >= 2

\* C35: an add_local_workable that raises ContentError for a unit which was
\* not in the local cache leaves the Content as it was; in particular the
\* unit is not in the cache afterwards.
C35_FailedAddLocalLeavesNoGhost ==
    [][/\ last'.op = "add_local_workable"
       /\ last'.res = "ContentError"
       /\ ~DictHas(cont.local_workables_cache, heap[last'.args[1]].uuid)
       => /\ cont' = cont
          /\ ~DictHas(cont'.local_workables_cache, heap[last'.args[1]].uuid)]_vars

\* the units of a sequence of units, as a set
UnitsOf(units) == {units[i] : i \in 1..Len(units)}

\* C36: make_complex() loses no local unit: when it is called on an atomic
\* unit that carries a payload, every unit that get_locals() returned before
\* the call is returned by get_locals() after it, next to the unit that
\* materializes the payload.
C36_MakeComplexKeepsLocals ==
    [][/\ last'.op = "make_complex"
       /\ last'.res = "ok"
       /\ is_atom(heap[last'.obj])
       /\ heap[last'.obj].content.content # ""
       => /\ UnitsOf(get_locals(heap, last'.obj)) \subseteq UnitsOf(get_locals(heap', last'.obj))
          /\ \E l \in UnitsOf(get_locals(heap', last'.obj)) :
                heap'[l].is_converted_content]_vars

\* C37: get_locals() of no unit returns the same unit twice: an add_local
\* of a unit that is a local unit of the owner already adds no second local
\* frame for it.
C37_NoLocalTwice ==
    \A o \in Objs :
        \A i, j \in 1..Len(get_locals(heap, o)) :
            get_locals(heap, o)[i] = get_locals(heap, o)[j] => i = j

\* C38: a convert_to_simple(id) that raises ConversionError for a registered
\* composite unit leaves the registry as it was: id is still registered and
\* maps to the same unit, which is still composite.
C38_FailedConvertKeepsRegistry ==
    [][/\ last'.op = "convert_to_simple"
       /\ last'.res = "ConversionError"
       /\ DictHas(workables, last'.obj)
       /\ is_complex(heap[DictGet(workables, last'.obj)])
       => /\ workables' = workables
          /\ is_complex(heap'[DictGet(workables, last'.obj)])]_vars

\* C39: with units created by the Registry, children attached and detached
\* by update_complex_structure and units deleted by delete, every child frame
\* of every registered composite unit refers to an id that is registered.
C39_NoDanglingChild ==
    \A i \in 1..Len(workables) :
        is_complex(heap[workables[i].val])
           => ChildIds(heap[workables[i].val].content) \subseteq RegisteredIds

\* a unit that was the child of a registered composite unit has been deleted,
\* and that parent is still registered, without the child
C39_Witness ==
    /\ last.op = "delete"
    /\ last.res = "ok"
    /\ last.pre = <<"child", "">>
    /\ \E i \in 1..Len(workables) :
          /\ is_complex(heap[workables[i].val])
          /\ DictHas(heap[workables[i].val].child_references, last.obj) = FALSE
          /\ ChildIds(heap[workables[i].val].content) # {}

====
